---------------------------- MODULE Spec2Model ----------------------------
(***************************************************************************)
(* Chaum-Pedersen / DLEQ proof of src/src/nizk_dleq.rs made non-interactive *)
(* by Fiat-Shamir: dleq_proof_challenge, prove_gen and verify_proof.        *)
(*                                                                          *)
(* The group G1 and the scalar field Fr come from blstrs: G1 has prime      *)
(* order, and that order is the modulus of Fr.  The model keeps exactly     *)
(* this structure on a small prime: G1 is the additive group of integers    *)
(* modulo Order (0 is the identity, every other element is a generator)     *)
(* and Fr is the field of integers modulo Order.                            *)
(*                                                                          *)
(* sha3_256, StdRng::from_seed and Fr::random are deterministic functions   *)
(* whose values the model cannot compute.  The scalar drawn from a seed is  *)
(* an unknown function of the seed: the first time a seed is used any       *)
(* scalar may come out, and `drawn` remembers it for every later use.       *)
(***************************************************************************)
EXTENDS Integers, Sequences, FiniteSets, TLC

VARIABLES
    instance,   \* the DLEqInstance the caller holds
    witness,    \* the DLEqWitness the caller holds
    nizk,       \* the ZkProofDLEq the caller holds
    drawn,      \* seed -> scalar: Fr::random(StdRng::from_seed(seed)) as used so far
    map,        \* the byte buffer of the latest dleq_proof_challenge call
    calls,      \* every dleq_proof_challenge call so far: its arguments and result
    proofs,     \* every prove_gen call so far: its arguments and result
    checks      \* every verify_proof call so far: its arguments and result

vars == <<instance, witness, nizk, drawn, map, calls, proofs, checks>>

----------------------------------------------------------------------------
(* The scalar field and the group *)

\* The model's only bound: the group order is the least prime >= MinOrder.
MinOrder == 3

IsPrime(n) == n > 1 /\ \A d \in 2..(n - 1) : n % d # 0

Order ==
    CHOOSE p \in MinOrder..(2 * MinOrder) :
        IsPrime(p) /\ \A q \in MinOrder..(p - 1) : ~IsPrime(q)

Fr == 0..(Order - 1)

G1Affine == 0..(Order - 1)

DLEqInstance == [g : G1Affine, h : G1Affine, g_x : G1Affine, h_x : G1Affine]

DLEqWitness == [scalar_x : Fr, scalar_r : Fr]

ZkProofDLEq == [c : Fr, s : Fr]

\* #[derive(Default)]: both scalars zero
ZkProofDLEqDefault == [c |-> 0, s |-> 0]

ZkProofDLEqError == {"InvalidProof", "InvalidInstance"}

\* Fr: a * b and a - b
fr_mul(a, b) == (a * b) % Order

fr_sub(a, b) == (a + Order - b) % Order

\* G1: P.mul(k) and P + Q
g1_mul(P, k) == (P * k) % Order

g1_add(P, Q) == (P + Q) % Order

\* GroupEncoding::to_bytes: the canonical fixed-length encoding, a flag byte
\* (compressed, or compressed and point at infinity) and the point
to_bytes(P) == <<IF P = 0 THEN 192 ELSE 128, P>>

----------------------------------------------------------------------------
(* dleq_proof_challenge *)

DOMAIN_PROOF_OF_DLEQ_CHALLENGE ==
    <<98, 108, 115, 116, 116, 99, 45, 122, 107, 45, 112, 114, 111, 111, 102,
      45, 111, 102, 45, 100, 108, 101, 113, 45, 99, 104, 97, 108, 108, 101,
      110, 103, 101>>

\* "g-value", "g_x", "h-value", "h_x", "g_k", "h_k" .as_bytes()
LabelG == <<103, 45, 118, 97, 108, 117, 101>>

LabelGx == <<103, 95, 120>>

LabelH == <<104, 45, 118, 97, 108, 117, 101>>

LabelHx == <<104, 95, 120>>

LabelGk == <<103, 95, 107>>

LabelHk == <<104, 95, 107>>

\* A buffer that outlives the call: what is appended lands after the bytes of
\* the call before.
VecKept == map

\* let mut map = Vec::new();
VecNew == << >>

\* The labels and the encodings in another order: g, h, g_x, h_x, g_k, h_k.
TranscriptBasesFirst(buf, a) ==
    buf \o LabelG \o to_bytes(a[1]) \o LabelH \o to_bytes(a[3])
        \o LabelGx \o to_bytes(a[2]) \o LabelHx \o to_bytes(a[4])
        \o LabelGk \o to_bytes(a[5]) \o LabelHk \o to_bytes(a[6])
        \o DOMAIN_PROOF_OF_DLEQ_CHALLENGE

\* The h_x label and encoding left out.
TranscriptWithoutHx(buf, a) ==
    buf \o LabelG \o to_bytes(a[1]) \o LabelGx \o to_bytes(a[2])
        \o LabelH \o to_bytes(a[3])
        \o LabelGk \o to_bytes(a[5]) \o LabelHk \o to_bytes(a[6])
        \o DOMAIN_PROOF_OF_DLEQ_CHALLENGE

\* The thirteen map.append calls on the arguments a = <<g, g_x, h, h_x, g_k, h_k>>
Transcript(buf, a) ==
    buf \o LabelG \o to_bytes(a[1]) \o LabelGx \o to_bytes(a[2])
        \o LabelH \o to_bytes(a[3]) \o LabelHx \o to_bytes(a[4])
        \o LabelGk \o to_bytes(a[5]) \o LabelHk \o to_bytes(a[6])
        \o DOMAIN_PROOF_OF_DLEQ_CHALLENGE

\* crate::util::sha3_256: a collision-resistant 256-bit hash, kept symbolic
\* (the digest of a buffer is a value that names the buffer).
sha3_256(bytes) == <<"sha3_256", bytes>>

\* Fr::random(&mut StdRng::from_seed(seed)): the scalars the call can return
FrRandom(seed) == IF seed \in DOMAIN drawn THEN {drawn[seed]} ELSE Fr

\* the unknown function of the seed, extended by the value just drawn
Remember(seed, big) == IF seed \in DOMAIN drawn THEN drawn ELSE drawn @@ (seed :> big)

\* One call dleq_proof_challenge(a) returning big
dleq_proof_challenge(a, big) ==
    LET buf == Transcript(VecNew, a)
        seed == sha3_256(buf)
    IN  /\ big \in FrRandom(seed)
        /\ drawn' = Remember(seed, big)
        /\ map' = buf
        /\ calls' = calls \cup {[args |-> a, big |-> big]}

----------------------------------------------------------------------------
(* prove_gen *)

\* s = k + c * x
prove_response_plus(k, c, x) == (k + fr_mul(c, x)) % Order

\* s = k - c
prove_response_no_x(k, c, x) == fr_sub(k, c)

\* let s = k.sub(&c.mul(&witness.scalar_x));
prove_response(k, c, x) == fr_sub(k, fr_mul(c, x))

\* g_x and h passed in each other's place
prove_challenge_args_swapped(inst, g_k, h_k) ==
    <<inst.g, inst.h, inst.g_x, inst.h_x, g_k, h_k>>

\* the arguments of the call at lines 79-86
prove_challenge_args(inst, g_k, h_k) ==
    <<inst.g, inst.g_x, inst.h, inst.h_x, g_k, h_k>>

ProveGen ==
    LET k == witness.scalar_r
        g_k == g1_mul(instance.g, k)
        h_k == g1_mul(instance.h, k)
    IN  \E c \in Fr :
            /\ dleq_proof_challenge(prove_challenge_args(instance, g_k, h_k), c)
            /\ nizk' = [c |-> c, s |-> prove_response(k, c, witness.scalar_x)]
            /\ proofs' = proofs \cup
                   {[instance |-> instance, witness |-> witness,
                     g_k |-> g_k, h_k |-> h_k, map |-> map', nizk |-> nizk']}
            /\ UNCHANGED <<instance, witness, checks>>

----------------------------------------------------------------------------
(* verify_proof *)

\* base^s alone
verify_commitment_no_image(base, base_x, pi) == g1_mul(base, pi.s)

\* base^s - base_x^c
verify_commitment_minus(base, base_x, pi) ==
    (g1_mul(base, pi.s) + Order - g1_mul(base_x, pi.c)) % Order

\* base_x^c alone
verify_commitment_no_response(base, base_x, pi) == g1_mul(base_x, pi.c)

\* g_k_prime = g^s + g_x^c, and the same for h
verify_commitment(base, base_x, pi) ==
    g1_add(g1_mul(base, pi.s), g1_mul(base_x, pi.c))

\* the arguments of the call at lines 103-110
verify_challenge_args(inst, g_k_prime, h_k_prime) ==
    <<inst.g, inst.g_x, inst.h, inst.h_x, g_k_prime, h_k_prime>>

\* The instance checked first: identity bases and g = h are refused.
verify_result_validating(inst, pi, c_prime) ==
    IF inst.g = 0 \/ inst.h = 0 \/ inst.g = inst.h THEN "InvalidInstance"
    ELSE IF pi.c = c_prime THEN "Ok" ELSE "InvalidProof"

\* if nizk.c == c_prime { Ok(()) } else { Err(InvalidProof) }
verify_result(inst, pi, c_prime) ==
    IF pi.c = c_prime THEN "Ok" ELSE "InvalidProof"

VerifyProof ==
    LET g_k_prime == verify_commitment(instance.g, instance.g_x, nizk)
        h_k_prime == verify_commitment(instance.h, instance.h_x, nizk)
    IN  \E c_prime \in Fr :
            /\ dleq_proof_challenge(
                   verify_challenge_args(instance, g_k_prime, h_k_prime), c_prime)
            /\ checks' = checks \cup
                   {[instance |-> instance, nizk |-> nizk,
                     g_k_prime |-> g_k_prime, h_k_prime |-> h_k_prime,
                     map |-> map', c_prime |-> c_prime,
                     result |-> verify_result(instance, nizk, c_prime)]}
            /\ UNCHANGED <<instance, witness, nizk, proofs>>

----------------------------------------------------------------------------
(* The caller: every field of DLEqInstance and ZkProofDLEq is public *)

\* The proof in hand replaced by any other pair of scalars (c + 1, a flipped
\* bit of c or of s, ...)
TamperProof ==
    /\ \E pi \in ZkProofDLEq : pi # nizk /\ nizk' = pi
    /\ UNCHANGED <<instance, witness, drawn, map, calls, proofs, checks>>

\* The instance in hand replaced by a different one: one element changed, or
\* g_x and h_x swapped
ChangeInstance ==
    /\ \E other \in
           {[instance EXCEPT !.g = v] : v \in G1Affine}
           \cup {[instance EXCEPT !.h = v] : v \in G1Affine}
           \cup {[instance EXCEPT !.g_x = v] : v \in G1Affine}
           \cup {[instance EXCEPT !.h_x = v] : v \in G1Affine}
           \cup {[instance EXCEPT !.g_x = instance.h_x, !.h_x = instance.g_x]} :
           other # instance /\ instance' = other
    /\ UNCHANGED <<witness, nizk, drawn, map, calls, proofs, checks>>

----------------------------------------------------------------------------
(* Specifications *)

\* g_x = g^x and h_x = h^x
Matches(inst, wit) ==
    /\ inst.g_x = g1_mul(inst.g, wit.scalar_x)
    /\ inst.h_x = g1_mul(inst.h, wit.scalar_x)

NothingCalled ==
    /\ drawn = << >>
    /\ map = << >>
    /\ calls = {}
    /\ proofs = {}
    /\ checks = {}

\* An instance with a witness that matches it, no proof yet
InitHonest ==
    /\ instance \in DLEqInstance
    /\ witness \in DLEqWitness
    /\ Matches(instance, witness)
    /\ nizk = ZkProofDLEqDefault
    /\ NothingCalled

\* Any instance with any witness, no proof yet
InitAny ==
    /\ instance \in DLEqInstance
    /\ witness \in DLEqWitness
    /\ nizk = ZkProofDLEqDefault
    /\ NothingCalled

\* Any instance with any proof (the verifier holds no witness)
InitVerifier ==
    /\ instance \in DLEqInstance
    /\ witness = [scalar_x |-> 0, scalar_r |-> 0]
    /\ nizk \in ZkProofDLEq
    /\ NothingCalled

\* Prove for a matching witness, tamper with the proof or not, verify.
Next ==
    \/ checks = {} /\ ProveGen
    \/ proofs # {} /\ checks = {} /\ TamperProof
    \/ proofs # {} /\ VerifyProof

Spec == InitHonest /\ [][Next]_vars

\* Prove for any witness, matching or not, then verify the proof.
NextAny ==
    \/ checks = {} /\ ProveGen
    \/ proofs # {} /\ VerifyProof

SpecAny == InitAny /\ [][NextAny]_vars

\* Verify any proof against any instance.
NextVerifier == VerifyProof

SpecVerifier == InitVerifier /\ [][NextVerifier]_vars

\* Prove, move to a different instance, then verify the proof there or prove
\* again with the same witness.
NextRebind ==
    \/ checks = {} /\ Cardinality(proofs) < 2 /\ ProveGen
    \/ checks = {} /\ Cardinality(proofs) = 1
           /\ (\E p \in proofs : p.instance = instance) /\ ChangeInstance
    \/ Cardinality(proofs) = 1 /\ VerifyProof

SpecRebind == InitHonest /\ [][NextRebind]_vars

\* Prove and verify in any order, any number of times: the proof verified is
\* the default one before the first prove_gen, its result after.
NextCalls ==
    \/ ProveGen
    \/ VerifyProof

SpecCalls == InitHonest /\ [][NextCalls]_vars

----------------------------------------------------------------------------
(* The properties *)

\* The byte layout a transcript must have, written out from the labels:
\* "g-value" g "g_x" g_x "h-value" h "h_x" h_x "g_k" g_k "h_k" h_k, then
\* "blsttc-zk-proof-of-dleq-challenge".
Layout(g, g_x, h, h_x, g_k, h_k) ==
    <<103, 45, 118, 97, 108, 117, 101>> \o to_bytes(g)
        \o <<103, 95, 120>> \o to_bytes(g_x)
        \o <<104, 45, 118, 97, 108, 117, 101>> \o to_bytes(h)
        \o <<104, 95, 120>> \o to_bytes(h_x)
        \o <<103, 95, 107>> \o to_bytes(g_k)
        \o <<104, 95, 107>> \o to_bytes(h_k)
        \o <<98, 108, 115, 116, 116, 99, 45, 122, 107, 45, 112, 114, 111, 111,
             102, 45, 111, 102, 45, 100, 108, 101, 113, 45, 99, 104, 97, 108,
             108, 101, 110, 103, 101>>

\* The scalar the oracle gave for a buffer it has hashed (-1: never hashed)
Oracle(buf) == IF sha3_256(buf) \in DOMAIN drawn THEN drawn[sha3_256(buf)] ELSE -1

\* The inverse of a non-zero scalar
Inverse(a) == CHOOSE y \in Fr : (a * y) % Order = 1

\* C1 (completeness): whenever the witness matches the instance (g_x = g^x
\* and h_x = h^x), verify_proof of that instance and of the proof prove_gen
\* made for it returns Ok, for every r and for degenerate bases too.
C1_Completeness ==
    \A p \in proofs : \A v \in checks :
        (/\ p.instance.g_x = (p.instance.g * p.witness.scalar_x) % Order
         /\ p.instance.h_x = (p.instance.h * p.witness.scalar_x) % Order
         /\ v.instance = p.instance
         /\ v.nizk = p.nizk)
        => v.result = "Ok"

\* An honest proof of an ordinary instance (distinct generators, x, r and c
\* non-zero) has been verified.
C1_Witness ==
    \E p \in proofs : \E v \in checks :
        /\ Matches(p.instance, p.witness)
        /\ p.instance.g # 0 /\ p.instance.h # 0 /\ p.instance.g # p.instance.h
        /\ p.witness.scalar_x # 0 /\ p.witness.scalar_r # 0 /\ p.nizk.c # 0
        /\ v.instance = p.instance /\ v.nizk = p.nizk
        /\ v.result = "Ok"

\* C2: verify_proof computes g_k' = g^s + g_x^c and h_k' = h^s + h_x^c,
\* derives c' as the oracle's value on (g, g_x, h, h_x, g_k', h_k'), returns
\* Ok exactly when c' = c and InvalidProof when c' differs from c.
C2_VerifyEquation ==
    \A v \in checks :
        LET g_k == (v.instance.g * v.nizk.s + v.instance.g_x * v.nizk.c) % Order
            h_k == (v.instance.h * v.nizk.s + v.instance.h_x * v.nizk.c) % Order
            c_prime == Oracle(Layout(v.instance.g, v.instance.g_x,
                                     v.instance.h, v.instance.h_x, g_k, h_k))
        IN  /\ v.g_k_prime = g_k
            /\ v.h_k_prime = h_k
            /\ v.c_prime = c_prime
            /\ (v.result = "Ok") <=> (c_prime = v.nizk.c)
            /\ (c_prime # v.nizk.c) => (v.result = "InvalidProof")

\* A proof whose challenge is not the recomputed one has been refused, on an
\* instance where both terms of the verification equation count.
C2_Witness ==
    \E v \in checks :
        /\ v.result = "InvalidProof"
        /\ v.c_prime # v.nizk.c
        /\ v.instance.g # 0 /\ v.instance.g_x # 0
        /\ v.nizk.s # 0 /\ v.nizk.c # 0

\* C3 as claimed (tamper sensitivity): every proof that differs from the one
\* prove_gen made for a matching witness is refused with InvalidProof.
C3_TamperAlwaysRejected ==
    \A p \in proofs : \A v \in checks :
        (/\ Matches(p.instance, p.witness)
         /\ v.instance = p.instance
         /\ v.nizk # p.nizk)
        => v.result = "InvalidProof"

\* C3 as amended: when g or h is not the identity, a proof that differs from
\* the honest one is refused unless the verifier's recomputed transcript
\* differs from the prover's and the oracle's value on it is the tampered c.
C3_TamperRejectedUnlessRedrawn ==
    \A p \in proofs : \A v \in checks :
        (/\ Matches(p.instance, p.witness)
         /\ v.instance = p.instance
         /\ v.nizk # p.nizk
         /\ (p.instance.g # 0 \/ p.instance.h # 0)
         /\ v.result = "Ok")
        => (v.map # p.map /\ Oracle(v.map) = v.nizk.c)

\* A tampered proof of a non-degenerate instance that recomputes the prover's
\* own commitments has been refused.
C3_Witness ==
    \E p \in proofs : \E v \in checks :
        /\ Matches(p.instance, p.witness)
        /\ v.instance = p.instance
        /\ v.nizk # p.nizk
        /\ p.instance.g # 0 /\ p.instance.h # 0
        /\ v.map = p.map
        /\ v.result = "InvalidProof"

\* C4 as claimed (transcript binding): a proof made for instance I and a
\* matching witness is refused against every different instance.
C4_OtherInstanceAlwaysRejected ==
    \A p \in proofs : \A v \in checks :
        (/\ Matches(p.instance, p.witness)
         /\ v.nizk = p.nizk
         /\ v.instance # p.instance)
        => v.result = "InvalidProof"

\* C4 as amended: against a different instance the verifier's transcript
\* differs from the prover's, and the proof is refused unless the oracle
\* gives both transcripts the same scalar.
C4_OtherInstanceRejectedUnlessCollision ==
    \A p \in proofs : \A v \in checks :
        (/\ Matches(p.instance, p.witness)
         /\ v.nizk = p.nizk
         /\ v.instance # p.instance)
        => /\ v.map # p.map
           /\ (v.result = "Ok") => (Oracle(v.map) = Oracle(p.map))
           /\ (v.result # "Ok") => (v.result = "InvalidProof")

\* An honest proof has been refused against the instance with g_x and h_x
\* swapped.
C4_Witness ==
    \E p \in proofs : \E v \in checks :
        /\ Matches(p.instance, p.witness)
        /\ v.nizk = p.nizk
        /\ p.instance.g_x # p.instance.h_x
        /\ v.instance = [p.instance EXCEPT !.g_x = p.instance.h_x,
                                           !.h_x = p.instance.g_x]
        /\ v.result = "InvalidProof"

\* C5 as claimed (soundness, negative case): when g_x is not g^x for the
\* witness's x, the proof prove_gen makes is refused against that instance.
C5_MismatchAlwaysRejected ==
    \A p \in proofs : \A v \in checks :
        (/\ p.instance.g_x # (p.instance.g * p.witness.scalar_x) % Order
         /\ v.instance = p.instance
         /\ v.nizk = p.nizk)
        => v.result = "InvalidProof"

\* C5 as amended: such a proof is refused unless its challenge c is 0, or
\* the oracle gives the verifier's transcript, which differs from the
\* prover's when c is not 0, the same scalar c.
C5_MismatchRejectedUnlessZeroOrCollision ==
    \A p \in proofs : \A v \in checks :
        (/\ p.instance.g_x # (p.instance.g * p.witness.scalar_x) % Order
         /\ v.instance = p.instance
         /\ v.nizk = p.nizk)
        => /\ (p.nizk.c # 0) => (v.map # p.map)
           /\ (v.result = "Ok") =>
                  (p.nizk.c = 0 \/ (v.map # p.map /\ Oracle(v.map) = Oracle(p.map)))
           /\ (v.result # "Ok") => (v.result = "InvalidProof")

\* A proof made for a witness that does not match g_x, with c not 0, has
\* been refused.
C5_Witness ==
    \E p \in proofs : \E v \in checks :
        /\ p.instance.g_x # g1_mul(p.instance.g, p.witness.scalar_x)
        /\ v.instance = p.instance
        /\ v.nizk = p.nizk
        /\ p.nizk.c # 0
        /\ v.result = "InvalidProof"

\* C6 (challenge determinism): two dleq_proof_challenge calls with the same
\* six group elements return the same scalar, whatever was called between
\* them and in whatever order.
C6_ChallengeDeterministic ==
    \A a \in calls : \A b \in calls : (a.args = b.args) => (a.big = b.big)

\* prove_gen and verify_proof have both called the oracle on the same six
\* elements, and verify_proof has also called it on other ones.
C6_Witness ==
    \E p \in proofs : \E v \in checks : \E w \in checks :
        /\ prove_challenge_args(p.instance, p.g_k, p.h_k)
               = verify_challenge_args(v.instance, v.g_k_prime, v.h_k_prime)
        /\ verify_challenge_args(w.instance, w.g_k_prime, w.h_k_prime)
               # verify_challenge_args(v.instance, v.g_k_prime, v.h_k_prime)
        /\ Cardinality(calls) = 2

\* C7: for every instance and witness, matching or not, prove_gen takes
\* k = r, g_k = g^k, h_k = h^k, c the oracle's value on (g, g_x, h, h_x, g_k,
\* h_k) and s = k - c*x in the field, returns (c, s), and can always be
\* called: it has no failure and no check of the witness.
C7_ProveEquation ==
    /\ ENABLED ProveGen
    /\ \A p \in proofs :
        LET k == p.witness.scalar_r
            x == p.witness.scalar_x
            g_k == (p.instance.g * k) % Order
            h_k == (p.instance.h * k) % Order
            c == Oracle(Layout(p.instance.g, p.instance.g_x,
                               p.instance.h, p.instance.h_x, g_k, h_k))
        IN  /\ p.g_k = g_k
            /\ p.h_k = h_k
            /\ p.nizk.c = c
            /\ p.nizk.s = (k + Order * Order - c * x) % Order
            /\ p.nizk \in ZkProofDLEq

\* prove_gen has returned a proof for a witness that matches neither g_x
\* nor h_x.
C7_Witness ==
    \E p \in proofs :
        /\ p.instance.g_x # g1_mul(p.instance.g, p.witness.scalar_x)
        /\ p.instance.h_x # g1_mul(p.instance.h, p.witness.scalar_x)
        /\ p.instance.g_x # p.instance.h
        /\ p.nizk.c # 0 /\ p.witness.scalar_x # 0

\* C8: verify_proof never returns InvalidInstance: its result is Ok or
\* InvalidProof for every instance, degenerate ones included, and every proof.
C8_NeverInvalidInstance ==
    \A v \in checks :
        /\ v.result # "InvalidInstance"
        /\ v.result \in {"Ok", "InvalidProof"}

\* verify_proof has returned for an instance whose g is the identity and
\* for which h = g.
C8_Witness ==
    \E v \in checks :
        /\ v.instance.g = 0
        /\ v.instance.h = v.instance.g
        /\ v.result = "Ok"

\* C9: two proofs (c1, s1) and (c2, s2) made with the same witness (x, r) on
\* two different instances, with c1 # c2, give x = (s1 - s2) * (c2 - c1)^(-1).
C9_ReusedRandomnessLeaksX ==
    \A p1 \in proofs : \A p2 \in proofs :
        (/\ p1.witness = p2.witness
         /\ p1.instance # p2.instance
         /\ p1.nizk.c # p2.nizk.c)
        => p1.witness.scalar_x =
               (((p1.nizk.s + Order - p2.nizk.s) % Order)
                    * Inverse((p2.nizk.c + Order - p1.nizk.c) % Order)) % Order

\* Two proofs with different challenges have been made with one witness,
\* whose x is not 0, on two instances.
C9_Witness ==
    \E p1 \in proofs : \E p2 \in proofs :
        /\ p1.witness = p2.witness
        /\ p1.instance # p2.instance
        /\ p1.nizk.c # p2.nizk.c
        /\ p1.witness.scalar_x > 1

\* C10: the buffer hashed is the labelled encodings of g, g_x, h, h_x, g_k,
\* h_k in this order followed by the domain tag, and prove_gen and
\* verify_proof both pass the instance's (g, g_x, h, h_x) and then their own
\* commitments.
C10_TranscriptLayout ==
    /\ \A p \in proofs :
           p.map = Layout(p.instance.g, p.instance.g_x, p.instance.h,
                          p.instance.h_x, p.g_k, p.h_k)
    /\ \A v \in checks :
           v.map = Layout(v.instance.g, v.instance.g_x, v.instance.h,
                          v.instance.h_x, v.g_k_prime, v.h_k_prime)
    /\ (map # << >>) =>
           (\E c \in calls :
                map = Layout(c.args[1], c.args[2], c.args[3], c.args[4],
                             c.args[5], c.args[6]))

\* Both functions have hashed a transcript in which a swap of g_x and h, or
\* of the two commitments, would show.
C10_Witness ==
    \E p \in proofs : \E v \in checks :
        /\ p.instance.g_x # p.instance.h
        /\ p.g_k # p.h_k
        /\ v.instance.g_x # v.instance.h
        /\ v.g_k_prime # v.h_k_prime
        /\ v.map # p.map

=============================================================================
